---- MODULE Spec2Model ----
(***************************************************************************)
(* Registration form of the mobile client (RegistrationScreen.tsx).        *)
(*                                                                         *)
(* The screen binds seven text/picker inputs to a Formik form whose        *)
(* validationSchema is registrationSchema (yup).  The model follows the    *)
(* event handlers the screen wires up:                                     *)
(*   handleChange(field)  - onChangeText / onValueChange of every input    *)
(*   handleBlur(field)    - onBlur of the four TextInputs                  *)
(*   handleSubmit()       - onPress of the submit TouchableOpacity         *)
(* and the completions of the three kinds of HTTP request the screen       *)
(* issues: GET /api/programs, GET /api/check-email, POST /api/register.    *)
(*                                                                         *)
(* Formik runs the whole schema on every change, blur and submit attempt   *)
(* (validateOnChange / validateOnBlur are left at their defaults) and,     *)
(* when a run finishes, replaces errors by that run's result.  A run       *)
(* started by a submit attempt then calls onSubmit with the values the     *)
(* form holds at that moment.  yup starts all tests of a field together,   *)
(* so the email-available test issues its GET whatever the other rules     *)
(* of the field say; whether it also does so for an empty value, which     *)
(* Formik hands to yup as undefined, depends on the yup release installed  *)
(* (releases that treat required() as an ordinary test run it, later ones  *)
(* stop at the missing value), so both are modelled (yupAbsent).           *)
(*                                                                         *)
(* Formik's touched and isSubmitting are left out: no handler of the       *)
(* screen reads them, touched only decides whether an error text is drawn. *)
(* Strings are sequences of one-character strings so that the regular      *)
(* expression of the schema is evaluated, not assumed.  A field of a run   *)
(* named stale and the variables marked history record what has happened;  *)
(* no action reads them.                                                   *)
(***************************************************************************)
EXTENDS Naturals, Sequences, FiniteSets

VARIABLES
    values,      \* Formik values: field -> string
    errors,      \* Formik errors: field -> message ("" = no error)
    inflight,    \* validation runs whose check-email GET is outstanding
    loading,     \* useState(false) of the screen
    posts,       \* POST /api/register requests outstanding: their bodies
    programs,    \* useState<Program[]>([]): ids offered by the picker
    programsGet, \* GET /api/programs: "pending", "loaded", "failed"
    alert,       \* last Alert.alert shown
    yupAbsent,   \* the yup build runs tests of an absent (empty) value
    dispatched,  \* history: number of validation runs started
    newest,      \* history: the run started last: "none", "sync", "inflight"
                 \*          or the outcome of its check
    okEmails,    \* history: emails some check answered available:true
    checkThrew   \* history: the last answered check of the value now in the
                 \*          email input threw

vars == <<values, errors, inflight, loading, posts, programs,
          programsGet, alert, yupAbsent, dispatched, newest, okEmails,
          checkThrew>>

(* Bounds: validation runs started in one behaviour when the user edits    *)
(* freely (Spec); runs started beyond one per filled input when the user   *)
(* fills the form top to bottom (FillSpec); requests of one kind           *)
(* outstanding at once.                                                    *)
MaxEditPasses == 3
MaxExtra == 2
MaxInFlight == 2

Fields == {"surname", "name", "patronymic", "email", "programId",
           "yearAdmission", "group"}

Required == {"surname", "name", "email", "programId", "yearAdmission",
             "group"}

TextInputs == {"surname", "name", "patronymic", "email"}

Empty == <<>>

(* Strings typed into the email input. *)
GmailA == <<"a", "@", "g", "m", "a", "i", "l", ".", "c", "o", "m">>
HseA == <<"a", "@", "e", "d", "u", ".", "h", "s", "e", ".", "r", "u">>
HseB == <<"b", "@", "e", "d", "u", ".", "h", "s", "e", ".", "r", "u">>
EmailInputs == {Empty, GmailA, HseA, HseB}

(* Ids returned by GET /api/programs, as the picker's item values. *)
ProgramIds == {<<"1">>}

Letters == {"a", "b", "c", "d", "e", "f", "g", "h", "i", "j", "k", "l", "m",
            "n", "o", "p", "q", "r", "s", "t", "u", "v", "w", "x", "y", "z",
            "A", "B", "C", "D", "E", "F", "G", "H", "I", "J", "K", "L", "M",
            "N", "O", "P", "Q", "R", "S", "T", "U", "V", "W", "X", "Y", "Z"}

Digits == {"0", "1", "2", "3", "4", "5", "6", "7", "8", "9"}

(* [A-Za-z0-9._%+-] *)
LocalChars == Letters \cup Digits \cup {".", "_", "%", "+", "-"}

CorpDomain == <<"e", "d", "u", ".", "h", "s", "e", ".", "r", "u">>

(* /^[A-Za-z0-9._%+-]+@edu\.hse\.ru$/ *)
MatchesCorporate(s) ==
    \E k \in 2..Len(s) :
        /\ s[k] = "@"
        /\ \A i \in 1..(k - 1) : s[i] \in LocalChars
        /\ SubSeq(s, k + 1, Len(s)) = CorpDomain

(* yup string().email(): local part, "@", dot-separated labels of letters,  *)
(* digits and inner hyphens.                                               *)
EmailLocalChars == Letters \cup Digits \cup
    {".", "!", "#", "$", "%", "&", "*", "+", "/", "=", "?", "^", "_",
     "{", "|", "}", "~", "-"}

IsLabels(d) ==
    /\ Len(d) > 0
    /\ \A i \in 1..Len(d) :
        /\ d[i] \in Letters \cup Digits \cup {"-", "."}
        /\ d[i] \in {"-", "."} =>
            /\ i > 1 /\ i < Len(d)
            /\ d[i - 1] # "." /\ d[i + 1] # "."
            /\ d[i] = "." => (d[i - 1] # "-" /\ d[i + 1] # "-")

IsEmail(s) ==
    \E k \in 2..Len(s) :
        /\ s[k] = "@"
        /\ \A i \in 1..(k - 1) : s[i] \in EmailLocalChars
        /\ IsLabels(SubSeq(s, k + 1, Len(s)))

NoErrors == [f \in Fields |-> ""]

(* The message of the first failing rule of the email field; available is  *)
(* what the email-available test returned.                                 *)
EmailError(email, available) ==
    IF email = Empty THEN "Email required"
    ELSE IF ~IsEmail(email) THEN "Bad email format"
    ELSE IF ~MatchesCorporate(email) THEN "Corporate email only"
    ELSE IF ~available THEN "Email already registered"
    ELSE ""

RequiredError(v, message) == IF v = Empty THEN message ELSE ""

(* The schema with the rule of the last picker left out.                   *)
registrationSchemaNoGroup(vals, available) ==
    [f \in Fields |->
        CASE f = "surname" -> RequiredError(vals[f], "Surname required")
          [] f = "name" -> RequiredError(vals[f], "Name required")
          [] f = "email" -> EmailError(vals[f], available)
          [] f = "programId" -> RequiredError(vals[f], "Choose a program")
          [] f = "yearAdmission" -> RequiredError(vals[f], "Year required")
          [] OTHER -> ""]

(* The errors object Formik builds from one run of the schema.             *)
registrationSchema(vals, available) ==
    [f \in Fields |->
        CASE f = "surname" -> RequiredError(vals[f], "Surname required")
          [] f = "name" -> RequiredError(vals[f], "Name required")
          [] f = "email" -> EmailError(vals[f], available)
          [] f = "programId" -> RequiredError(vals[f], "Choose a program")
          [] f = "yearAdmission" -> RequiredError(vals[f], "Year required")
          [] f = "group" -> RequiredError(vals[f], "Group required")
          [] OTHER -> ""]

(* The async email-available test: response.data.available, and false      *)
(* from the catch block when the GET throws or times out.                  *)
emailAvailable(outcome) ==
    IF outcome = "error" THEN FALSE ELSE outcome = "available"

Outcomes == {"available", "taken", "error"}

(* The email-available test held back until the other email rules pass.    *)
IssuesCheckAfterPattern(vals) == MatchesCorporate(vals["email"])

(* Whether a run over vals reaches the email-available test.               *)
IssuesCheck(vals) == vals["email"] # Empty \/ yupAbsent

(* Values each input can produce. *)
Offered(f) ==
    CASE f = "email" -> EmailInputs
      [] f = "programId" -> {Empty} \cup programs
      [] f = "yearAdmission" -> {Empty, <<"2", "0", "2", "6">>}
      [] f = "group" -> {Empty, <<"1">>}
      [] OTHER -> {Empty, <<"x">>}

RemoveAt(s, i) == SubSeq(s, 1, i - 1) \o SubSeq(s, i + 1, Len(s))

Init ==
    /\ values = [f \in Fields |-> Empty]
    /\ errors = NoErrors
    /\ inflight = <<>>
    /\ loading = FALSE
    /\ posts = <<>>
    /\ programs = {}
    /\ programsGet = "pending"
    /\ alert = "none"
    /\ yupAbsent \in BOOLEAN
    /\ dispatched = 0
    /\ newest = "none"
    /\ okEmails = {}
    /\ checkThrew = FALSE

(* A finished run: SET_ERRORS with its result; a submit attempt with no    *)
(* errors then runs handleSubmit(values) of the screen: setLoading(true)   *)
(* and api.post(/api/register, values) with the current values.            *)
finishValidation(p, result, current) ==
    /\ errors' = result
    /\ IF p.submit /\ result = NoErrors
       THEN /\ Len(posts) < MaxInFlight
            /\ loading' = TRUE
            /\ posts' = Append(posts, current)
       ELSE UNCHANGED <<loading, posts>>

(* Runs i+1.. of s were started after run i; runs 1..i-1 before it.        *)
Supersede(s, i) ==
    [j \in 1..Len(s) |-> IF j < i THEN [s[j] EXCEPT !.stale = TRUE] ELSE s[j]]

(* validateFormWithHighPriority(vals): start one run of the schema.  A run *)
(* that issues no GET finishes before any other event is handled.          *)
validateForm(vals, submit, current) ==
    LET p == [vals |-> vals, submit |-> submit, stale |-> FALSE]
    IN  /\ dispatched' = dispatched + 1
        /\ IF IssuesCheck(vals)
           THEN /\ Len(inflight) < MaxInFlight
                /\ inflight' = Append(inflight, p)
                /\ newest' = "inflight"
                /\ UNCHANGED <<errors, loading, posts>>
           ELSE /\ inflight' = Supersede(inflight, Len(inflight) + 1)
                /\ newest' = "sync"
                /\ finishValidation(p, registrationSchema(vals, FALSE),
                                    current)

handleChange(f, v) ==
    /\ v \in Offered(f)
    /\ v # values[f]
    /\ values' = [values EXCEPT ![f] = v]
    /\ validateForm(values', FALSE, values')
    /\ checkThrew' = IF f = "email" THEN FALSE ELSE checkThrew
    /\ UNCHANGED <<programs, programsGet, alert, yupAbsent, okEmails>>

handleBlur(f) ==
    /\ f \in TextInputs
    /\ validateForm(values, FALSE, values)
    /\ UNCHANGED <<values, programs, programsGet, alert, yupAbsent,
                   okEmails, checkThrew>>

(* onPress of the submit button (disabled={loading}): submitForm of        *)
(* Formik validates the form and submits it when no rule fails.            *)
pressSubmit ==
    /\ ~loading
    /\ validateForm(values, TRUE, values)
    /\ UNCHANGED <<values, programs, programsGet, alert, yupAbsent,
                   okEmails, checkThrew>>

(* The check-email GET of run i is answered, throws or times out.          *)
checkEmailDone(i, outcome) ==
    LET p == inflight[i]
        e == p.vals["email"]
    IN  /\ inflight' = RemoveAt(Supersede(inflight, i), i)
        /\ newest' = IF i = Len(inflight) /\ newest = "inflight"
                     THEN outcome ELSE newest
        /\ finishValidation(p, registrationSchema(p.vals,
                                                  emailAvailable(outcome)),
                            values)
        /\ okEmails' = IF e # Empty /\ outcome = "available"
                       THEN okEmails \cup {e} ELSE okEmails
        /\ checkThrew' = IF e = Empty \/ e # values["email"] THEN checkThrew
                         ELSE IF outcome = "error" THEN TRUE
                         ELSE IF outcome = "available" THEN FALSE
                         ELSE checkThrew
        /\ UNCHANGED <<values, programs, programsGet, alert,
                       yupAbsent, dispatched>>

(* api.post(/api/register) settles: the try or the catch of                *)
(* handleSubmit, then finally setLoading(false).                           *)
registerDone(i, ok) ==
    /\ posts' = RemoveAt(posts, i)
    /\ alert' = IF ok THEN "success" ELSE "error"
    /\ loading' = FALSE
    /\ UNCHANGED <<values, errors, inflight, programs, programsGet,
                   yupAbsent, dispatched, newest, okEmails, checkThrew>>

(* loadPrograms of the mount effect. *)
loadProgramsDone(ok) ==
    /\ programsGet = "pending"
    /\ IF ok
       THEN /\ programs' = ProgramIds
            /\ programsGet' = "loaded"
            /\ alert' = alert
       ELSE /\ programs' = programs
            /\ programsGet' = "failed"
            /\ alert' = "programs"
    /\ UNCHANGED <<values, errors, inflight, loading, posts,
                   yupAbsent, dispatched, newest, okEmails, checkThrew>>

(* The user edits, blurs and presses in any order.  Six required fields    *)
(* start empty, so within MaxEditPasses runs no run of a submit attempt is *)
(* free of errors and no POST is sent.                                     *)
Next ==
    \/ \E f \in Fields : \E v \in Offered(f) :
           dispatched < MaxEditPasses /\ handleChange(f, v)
    \/ \E f \in TextInputs : dispatched < MaxEditPasses /\ handleBlur(f)
    \/ dispatched < MaxEditPasses /\ pressSubmit
    \/ \E i \in 1..Len(inflight) : \E o \in Outcomes : checkEmailDone(i, o)
    \/ \E ok \in BOOLEAN : loadProgramsDone(ok)

Spec == Init /\ [][Next]_vars

(* The inputs from top to bottom, as the screen lays them out.             *)
Layout == <<"surname", "name", "patronymic", "email", "programId",
            "yearAdmission", "group">>

Position(f) == CHOOSE k \in 1..Len(Layout) : Layout[k] = f

(* The user fills an input only once the required inputs above it are      *)
(* filled; any input may be cleared at any time.                           *)
TopToBottom(f, v) ==
    \/ v = Empty
    \/ \A g \in Required : Position(g) < Position(f) => values[g] # Empty

Filled(vals) == Cardinality({f \in Fields : vals[f] # Empty})

(* Starting one more run over vals keeps the runs within the bound.        *)
WithinExtra(vals) == dispatched + 1 <= Filled(vals) + MaxExtra

FillNext ==
    \/ \E f \in Fields : \E v \in Offered(f) :
           /\ TopToBottom(f, v)
           /\ WithinExtra([values EXCEPT ![f] = v])
           /\ handleChange(f, v)
    \/ \E f \in TextInputs : WithinExtra(values) /\ handleBlur(f)
    \/ WithinExtra(values) /\ pressSubmit
    \/ \E i \in 1..Len(inflight) : \E o \in Outcomes : checkEmailDone(i, o)
    \/ \E i \in 1..Len(posts) : \E ok \in BOOLEAN : registerDone(i, ok)
    \/ \E ok \in BOOLEAN : loadProgramsDone(ok)

FillSpec == Init /\ [][FillNext]_vars

(***************************************************************************)
(* Vocabulary of the claims.                                               *)
(***************************************************************************)

(* The field shows as Invalid; the email check is Pending.                 *)
Invalid(f) == errors[f] # ""

Pending == inflight # <<>>

IsSubmittable == (\A f \in Required : ~Invalid(f)) /\ ~Pending

(* This step is the end of run i of inflight.                              *)
Finished(i) == inflight' = RemoveAt(Supersede(inflight, i), i)

(* This step sends a POST /api/register.                                   *)
Sends == Len(posts') > Len(posts)

SentEmail == posts'[Len(posts')]["email"]

(* This step is an edit of a field other than email.                       *)
OtherEdit == values' # values /\ values'["email"] = values["email"]

(* Some value the input of f offers passes the rules of f when the check   *)
(* answers available.                                                      *)
CanFix ==
    \A f \in Required : \E v \in Offered(f) :
        registrationSchema([values EXCEPT ![f] = v], TRUE)[f] = ""

(* C1: when the check of a run started for an earlier email value is       *)
(* answered after a run started later has finished, its result is          *)
(* discarded: the email field's validity stays the one it had.             *)
C1_Supersession ==
    [][\A i \in 1..Len(inflight) :
           (/\ Finished(i)
            /\ inflight[i].stale
            /\ inflight[i].vals["email"] # values["email"])
           => errors'["email"] = errors["email"]]_vars

(* C2: submit presses made before the first submission has finished send   *)
(* one POST between them: no two POSTs are ever outstanding at once.       *)
C2_SingleSubmission == Len(posts) <= 1

(* C3: at the moment a POST is sent the snapshot is submittable: no        *)
(* required field is Invalid and the email check is not Pending.           *)
C3_SubmissionGate ==
    [][Sends => (/\ \A f \in Required : errors'[f] = ""
                 /\ inflight' = <<>>)]_vars

(* C4: a check of the current email that throws or times out marks the     *)
(* email Invalid, and no POST is sent while the last answered check of the *)
(* email it carries threw.                                                 *)
C4_FailClosed ==
    [][/\ (checkThrew' /\ ~checkThrew) => errors'["email"] # ""
       /\ Sends => ~checkThrew']_vars

(* C5: a check-email GET is outstanding only for an email value that is    *)
(* non-empty and matches the corporate pattern.                            *)
C5_CheckOnlyAfterPattern ==
    \A i \in 1..Len(inflight) : MatchesCorporate(inflight[i].vals["email"])

(* C6 as stated: in every state of the form each empty required field is   *)
(* Invalid and the form is not submittable.                                *)
C6_EmptyRequiredAlwaysInvalid ==
    \A f \in Required : values[f] = Empty => (Invalid(f) /\ ~IsSubmittable)

(* C6 as amended: whenever a validation run finishes, every required field *)
(* that was empty in the values it validated is Invalid and the result has *)
(* an error; the patronymic never has one.                                 *)
C6_EmptyRequiredInvalid ==
    [][/\ \A i \in 1..Len(inflight) : Finished(i) =>
              /\ \A f \in Required :
                     inflight[i].vals[f] = Empty => errors'[f] # ""
              /\ errors'["patronymic"] = ""
       /\ (dispatched' # dispatched /\ Len(inflight') = Len(inflight)) =>
              /\ \A f \in Required : values'[f] = Empty => errors'[f] # ""
              /\ errors'["patronymic"] = ""]_vars

(* A run over values with the group picker left empty has finished and     *)
(* marked it, and nothing else but the email, Invalid while the patronymic *)
(* is empty.                                                               *)
C6_Witness ==
    /\ errors["group"] # ""
    /\ errors["surname"] = ""
    /\ values["surname"] # Empty
    /\ values["patronymic"] = Empty
    /\ values["group"] = Empty
    /\ inflight = <<>>

C8_Recoverable ==
    /\ posts = <<>> => ~loading
    /\ (programsGet # "pending" /\ ~loading) => CanFix

C10_PayloadValidated ==
    [][Sends => (/\ MatchesCorporate(SentEmail)
                 /\ SentEmail \in okEmails')]_vars
====
